---- MODULE Spec2Model ----
(***************************************************************************)
(* Model of interaction/dataset/track_api.py: the INTERACTIONScenario      *)
(* track data API.  One scenario object is modelled: its construction      *)
(* (split resolution, reading the track file, the derived indices and the  *)
(* two layers) and the calls made on it afterwards (get_case, the indexing *)
(* operator, render, len, the static get_tracks_from_frame).               *)
(*                                                                         *)
(* A track file is a record [cols, rows, missing]: its column names and    *)
(* the sequence of its rows in file order.  The kinematic columns          *)
(* (x, y, vx, ...) are carried by the single field x, which numbers the    *)
(* rows of a file so that two rows are never confused.  Strings that the   *)
(* code searches (the last segment of the root path) are sequences of      *)
(* one-letter strings.                                                     *)
(***************************************************************************)
EXTENDS Integers, Sequences, FiniteSets, TLC

VARIABLES pc, root_in, split_in, disk, frame_in, split, num_cases,
          tracks_to_predict, interesting_agents, frames, ret

vars == <<pc, root_in, split_in, disk, frame_in, split, num_cases,
          tracks_to_predict, interesting_agents, frames, ret>>

inputs == <<root_in, split_in, disk, frame_in>>

scenario == <<split, num_cases, tracks_to_predict, interesting_agents, frames>>

(***************************************************************************)
(* Bounds of the model.                                                    *)
(***************************************************************************)
MaxRows == 3

MaxFrameRows == 3

MaxPieces == 2

MaxListLen == 2

(***************************************************************************)
(* Program constants.                                                      *)
(***************************************************************************)
TsFirst == 100

TsLast == 4000

TsCurrent == 1000

None == "<None>"

Unset == "<unset>"

Location == "DR_USA_Intersection_EP0"

(***************************************************************************)
(* Helpers on sets and sequences.                                          *)
(***************************************************************************)
Range(s) == {s[i] : i \in 1..Len(s)}

SetMin(S) == CHOOSE m \in S : \A n \in S : m <= n

SetMax(S) == CHOOSE m \in S : \A n \in S : m >= n

RECURSIVE SortedSeq(_)
SortedSeq(S) == IF S = {} THEN <<>>
                ELSE <<SetMin(S)>> \o SortedSeq(S \ {SetMin(S)})

(***************************************************************************)
(* tracks/typing.py, AgentType: the enumeration and its decoder.  A raw    *)
(* value of the agent_type column decodes to a member; a member decodes to *)
(* itself; anything else is a decoding error.                              *)
(***************************************************************************)
AgentType == {"CAR", "PEDESTRIAN_BICYCLE"}

DecodeError == "<decode error>"

deserialize(x) ==
    CASE x \in AgentType -> x
      [] x = "car" -> "CAR"
      [] x = "pedestrian/bicycle" -> "PEDESTRIAN_BICYCLE"
      [] OTHER -> DecodeError

(***************************************************************************)
(* __init__, lines 65-81: the split is the argument, or is dereferenced    *)
(* from the last part of the resolved root path.                           *)
(***************************************************************************)
Word(s) ==
    CASE s = "train" -> <<"t", "r", "a", "i", "n">>
      [] s = "val" -> <<"v", "a", "l">>
      [] s = "test" -> <<"t", "e", "s", "t">>

\* Python's `w in s` on strings: w occurs in s as a contiguous substring.
Contains(s, w) ==
    \E i \in 1..(Len(s) - Len(w) + 1) : SubSeq(s, i, i + Len(w) - 1) = w

LastPart(root) == root[Len(root)]

\* A variant that looks for "val" before "train".
DereferenceSplitValFirst(root) ==
    LET seg == LastPart(root)
    IN  IF Contains(seg, Word("val")) THEN "val"
        ELSE IF Contains(seg, Word("train")) THEN "train"
        ELSE IF Contains(seg, Word("test")) THEN "test"
        ELSE "ValueError"

DereferenceSplit(root) ==
    LET seg == LastPart(root)
    IN  IF Contains(seg, Word("train")) THEN "train"
        ELSE IF Contains(seg, Word("val")) THEN "val"
        ELSE IF Contains(seg, Word("test")) THEN "test"
        ELSE "ValueError"

ResolveSplit(root, split_arg) ==
    IF split_arg = None THEN DereferenceSplit(root) ELSE split_arg

ValidSplit(s) == s \in {"train", "val", "test"}

\* track_file: the name of the file under the root directory.
track_file(location, s) ==
    IF s = "test" THEN <<location, "obs">> ELSE <<location, s>>

(***************************************************************************)
(* _init_scenario, lines 171-175: the rows read, agent types decoded.      *)
(***************************************************************************)
BaseCols == {"case_id", "track_id", "timestamp_ms", "agent_type", "x"}

FlagCols == {"tracks_to_predict", "interesting_agent"}

Decoded(rows) ==
    [i \in 1..Len(rows) |->
        [rows[i] EXCEPT !.agent_type = deserialize(rows[i].agent_type)]]

CaseIdsOf(rows) == {r.case_id : r \in Range(rows)}

GroupsOf(rows) == {<<r.case_id, r.track_id>> : r \in Range(rows)}

GroupIdx(rows, g) ==
    {i \in 1..Len(rows) : rows[i].case_id = g[1] /\ rows[i].track_id = g[2]}

(***************************************************************************)
(* _init_scenario, lines 198-217: the train/val indices.                   *)
(***************************************************************************)
min_timestamp(rows, g) == SetMin({rows[i].timestamp_ms : i \in GroupIdx(rows, g)})

max_timestamp(rows, g) == SetMax({rows[i].timestamp_ms : i \in GroupIdx(rows, g)})

\* agg "first": the value in the group's first row, in file order.
first_agent_type(rows, g) == rows[SetMin(GroupIdx(rows, g))].agent_type

\* A variant that leaves the agent type out.
ToPredictGroupAnyType(rows, g) ==
    /\ min_timestamp(rows, g) = TsFirst
    /\ max_timestamp(rows, g) = TsLast

ToPredictGroup(rows, g) ==
    /\ min_timestamp(rows, g) = TsFirst
    /\ max_timestamp(rows, g) = TsLast
    /\ first_agent_type(rows, g) = "CAR"

\* groupby("case_id").agg(list)["track_id"].to_dict(): a key for each case
\* that keeps at least one group, the groups' track ids in key order.
TrainTracksToPredict(rows) ==
    LET kept == {g \in GroupsOf(rows) : ToPredictGroup(rows, g)}
    IN  [c \in {g[1] : g \in kept} |->
            SortedSeq({g[2] : g \in {h \in kept : h[1] = c}})]

TrainInterestingAgents(rows) == [c \in CaseIdsOf(rows) |-> <<>>]

(***************************************************************************)
(* _init_scenario, lines 219-243: the two layers.                          *)
(***************************************************************************)
\* sort_values by (case_id, track_id, timestamp_ms), stable, then the first
\* row of each group.
TrackSummary(rows, g) ==
    LET idx == GroupIdx(rows, g)
        t0  == SetMin({rows[i].timestamp_ms : i \in idx})
        i0  == SetMin({i \in idx : rows[i].timestamp_ms = t0})
    IN  [case_id |-> g[1], track_id |-> g[2], timestamp_ms |-> t0,
         agent_type |-> rows[i0].agent_type]

RECURSIVE SortedGroups(_)
SortedGroups(G) ==
    IF G = {} THEN <<>>
    ELSE LET g == CHOOSE a \in G : \A b \in G :
                      a[1] < b[1] \/ (a[1] = b[1] /\ a[2] <= b[2])
         IN  <<g>> \o SortedGroups(G \ {g})

TrackLayer(rows) ==
    LET gs == SortedGroups(GroupsOf(rows))
    IN  [i \in 1..Len(gs) |-> TrackSummary(rows, gs[i])]

Layers(rows) == [MOTION_STATE |-> rows, TRACK |-> TrackLayer(rows)]

(***************************************************************************)
(* get_tracks_from_frame, lines 139-156.  A frame is a sequence of rows    *)
(* indexed by track_id.  The loop keeps track_dict (a dict, so its keys    *)
(* stay in insertion order: keys) and track_type.                          *)
(***************************************************************************)
MotionState(track_id, row) ==
    [agent_id |-> track_id, timestamp_ms |-> row.timestamp_ms, x |-> row.x]

Track(key, type, motion_states) ==
    [agent_id |-> key, type |-> type, motion_states |-> motion_states]

\* A variant whose loop assigns the motion state instead of appending it.
RECURSIVE FrameLoopAssign(_, _, _, _, _)
FrameLoopAssign(frame, i, keys, track_dict, track_type) ==
    IF i > Len(frame)
    THEN [keys |-> keys, track_dict |-> track_dict, track_type |-> track_type]
    ELSE LET row  == frame[i]
             k    == row.track_id
             ks   == DOMAIN track_dict \cup {k}
         IN  FrameLoopAssign(frame, i + 1,
                 IF k \in DOMAIN track_dict THEN keys ELSE Append(keys, k),
                 [a \in ks |-> IF a = k THEN <<MotionState(k, row)>>
                                        ELSE track_dict[a]],
                 [a \in ks |-> IF a = k THEN deserialize(row.agent_type)
                                        ELSE track_type[a]])

RECURSIVE FrameLoop(_, _, _, _, _)
FrameLoop(frame, i, keys, track_dict, track_type) ==
    IF i > Len(frame)
    THEN [keys |-> keys, track_dict |-> track_dict, track_type |-> track_type]
    ELSE LET row  == frame[i]
             k    == row.track_id
             old  == IF k \in DOMAIN track_dict THEN track_dict[k] ELSE <<>>
             ks   == DOMAIN track_dict \cup {k}
         IN  FrameLoop(frame, i + 1,
                 IF k \in DOMAIN track_dict THEN keys ELSE Append(keys, k),
                 [a \in ks |-> IF a = k THEN Append(old, MotionState(k, row))
                                        ELSE track_dict[a]],
                 [a \in ks |-> IF a = k THEN deserialize(row.agent_type)
                                        ELSE track_type[a]])

get_tracks_from_frame(frame) ==
    LET end == FrameLoop(frame, 1, <<>>, <<>>, <<>>)
    IN  [i \in 1..Len(end.keys) |->
            Track(end.keys[i], end.track_type[end.keys[i]],
                  end.track_dict[end.keys[i]])]

FrameDecodes(frame) ==
    \A i \in 1..Len(frame) : deserialize(frame[i].agent_type) # DecodeError

(***************************************************************************)
(* _get_history, _get_current, _get_futural, lines 158-168: .loc[case_id]  *)
(* on the motion-state layer, then the timestamp filter.                   *)
(***************************************************************************)
IndexedRow(r) ==
    [track_id |-> r.track_id, timestamp_ms |-> r.timestamp_ms,
     agent_type |-> r.agent_type, x |-> r.x]

CaseFrame(case_id) ==
    LET InCase(r) == r.case_id = case_id
        rs == SelectSeq(frames.MOTION_STATE, InCase)
    IN  [i \in 1..Len(rs) |-> IndexedRow(rs[i])]

HasCase(case_id) == case_id \in CaseIdsOf(frames.MOTION_STATE)

\* A variant whose history stops before the current timestamp.
get_history_strict(case_id) ==
    LET Keep(r) == r.timestamp_ms < TsCurrent
    IN  SelectSeq(CaseFrame(case_id), Keep)

get_history(case_id) ==
    LET Keep(r) == r.timestamp_ms <= TsCurrent
    IN  SelectSeq(CaseFrame(case_id), Keep)

get_current(case_id) ==
    LET Keep(r) == r.timestamp_ms = TsCurrent
    IN  SelectSeq(CaseFrame(case_id), Keep)

get_futural(case_id) ==
    LET Keep(r) == r.timestamp_ms > TsCurrent
    IN  SelectSeq(CaseFrame(case_id), Keep)

(***************************************************************************)
(* tracks/container.py, INTERACTIONCase: the container keeps the fields it *)
(* is given.  The two lists of track ids are the objects passed in, not    *)
(* copies.                                                                 *)
(***************************************************************************)
INTERACTIONCase(location, case_id, history, current, futural, ttp, ia) ==
    [location |-> location, case_id |-> case_id, history_tracks |-> history,
     current_tracks |-> current, futural_tracks |-> futural,
     tracks_to_predict |-> ttp, interesting_agents |-> ia]

(***************************************************************************)
(* Results of a call: a value, or the exception that left it.              *)
(***************************************************************************)
Raise(e) == [kind |-> "error", error |-> e]

Return(k, v) == [kind |-> k, value |-> v]

NoResult == [kind |-> "none"]

(***************************************************************************)
(* get_case, lines 110-123.                                                *)
(***************************************************************************)
get_case(case_id) ==
    IF ~HasCase(case_id) THEN Raise("KeyError")
    ELSE IF case_id \notin DOMAIN tracks_to_predict THEN Raise("KeyError")
    ELSE IF case_id \notin DOMAIN interesting_agents THEN Raise("KeyError")
    ELSE Return("Case",
            INTERACTIONCase(Location, case_id,
                get_tracks_from_frame(get_history(case_id)),
                get_tracks_from_frame(get_current(case_id)),
                get_tracks_from_frame(get_futural(case_id)),
                tracks_to_predict[case_id],
                interesting_agents[case_id]))

(***************************************************************************)
(* render, lines 125-137: the range check, then the case's own render.     *)
(***************************************************************************)
render(case_id) ==
    IF case_id >= num_cases THEN Raise("ValueError")
    ELSE LET c == get_case(case_id)
         IN  IF c.kind = "Case" THEN Return("Axes", c.value) ELSE c

(***************************************************************************)
(* _init_scenario, lines 170-243, as the outcome of reading `file`, the    *)
(* content found at track_file (NoFile when there is none).                *)
(***************************************************************************)
NoFile == [cols |-> {}, rows |-> <<>>, missing |-> TRUE]

\* Test split, lines 178-196: the rows with the flag set are grouped by
\* case and aggregated, the frame's to_dict() gives a plain dict of dicts,
\* and the second to_dict() is called on the inner dict, which has no such
\* attribute: the first index assignment (line 182) never completes.
InitScenario(s, file) ==
    LET base == [pc |-> "failed", split |-> s, num_cases |-> Unset,
                 tracks_to_predict |-> Unset, interesting_agents |-> Unset,
                 frames |-> Unset, ret |-> NoResult]
    IN  IF file = NoFile
        THEN [base EXCEPT !.ret = Raise("FileNotFoundError")]
        ELSE IF ~(BaseCols \subseteq file.cols)
        THEN [base EXCEPT !.ret = Raise("KeyError")]
        ELSE IF \E i \in 1..Len(file.rows) :
                    deserialize(file.rows[i].agent_type) = DecodeError
        THEN [base EXCEPT !.ret = Raise("DecodingError")]
        ELSE LET rows == Decoded(file.rows)
                 n    == Cardinality(CaseIdsOf(rows))
             IN  IF s = "test"
                 THEN IF ~(FlagCols \subseteq file.cols)
                      THEN [base EXCEPT !.num_cases = n,
                                        !.ret = Raise("KeyError")]
                      ELSE [base EXCEPT !.num_cases = n,
                                        !.ret = Raise("AttributeError")]
                 ELSE [pc |-> "constructed", split |-> s, num_cases |-> n,
                       tracks_to_predict |-> TrainTracksToPredict(rows),
                       interesting_agents |-> TrainInterestingAgents(rows),
                       frames |-> Layers(rows), ret |-> NoResult]

(***************************************************************************)
(* __init__, lines 59-83.  `dsk` is the one track file under the root:     *)
(* [name, file].                                                           *)
(***************************************************************************)
ReadFile(dsk, name) == IF dsk.name = name THEN dsk.file ELSE NoFile

init(root, split_arg, dsk) ==
    LET s == ResolveSplit(root, split_arg)
        failed == [pc |-> "failed", split |-> Unset, num_cases |-> Unset,
                   tracks_to_predict |-> Unset, interesting_agents |-> Unset,
                   frames |-> Unset, ret |-> NoResult]
    IN  IF split_arg = None /\ s = "ValueError"
        THEN [failed EXCEPT !.ret = Raise("ValueError")]
        ELSE IF ~ValidSplit(s)
        THEN [failed EXCEPT !.split = s, !.ret = Raise("AssertionError")]
        ELSE InitScenario(s, ReadFile(dsk, track_file(Location, s)))

(***************************************************************************)
(* Actions.                                                                *)
(***************************************************************************)
Construct(root, split_arg, dsk) ==
    /\ pc = "new"
    /\ root_in' = root
    /\ split_in' = split_arg
    /\ disk' = dsk
    /\ LET o == init(root, split_arg, dsk)
       IN  /\ pc' = o.pc
           /\ split' = o.split
           /\ num_cases' = o.num_cases
           /\ tracks_to_predict' = o.tracks_to_predict
           /\ interesting_agents' = o.interesting_agents
           /\ frames' = o.frames
           /\ ret' = o.ret
    /\ UNCHANGED frame_in

GetCase(case_id) ==
    /\ pc = "constructed"
    /\ ret' = get_case(case_id)
    /\ UNCHANGED <<pc, inputs, scenario>>

\* __getitem__, lines 245-246.
GetItem(case_id) ==
    /\ pc = "constructed"
    /\ ret' = get_case(case_id)
    /\ UNCHANGED <<pc, inputs, scenario>>

Render(case_id) ==
    /\ pc = "constructed"
    /\ ret' = render(case_id)
    /\ UNCHANGED <<pc, inputs, scenario>>

\* __len__, lines 248-249, and the num_cases property.
Length ==
    /\ pc = "constructed"
    /\ ret' = Return("int", num_cases)
    /\ UNCHANGED <<pc, inputs, scenario>>

\* The static get_tracks_from_frame, called on a frame of the caller's.
GetTracksFromFrame ==
    /\ pc = "frame"
    /\ pc' = "frame_done"
    /\ ret' = IF FrameDecodes(frame_in)
              THEN Return("tracks", get_tracks_from_frame(frame_in))
              ELSE Raise("DecodingError")
    /\ UNCHANGED <<inputs, scenario>>

\* The caller appends a track id to the tracks_to_predict list of the Case
\* it was last given.  That list is the index's own list (line 121).
CallerAppend(track_id) ==
    /\ pc = "constructed"
    /\ ret.kind = "Case"
    /\ Len(ret.value.tracks_to_predict) < MaxListLen
    /\ LET lst == Append(ret.value.tracks_to_predict, track_id)
       IN  /\ ret' = [ret EXCEPT !.value.tracks_to_predict = lst]
           /\ tracks_to_predict' =
                  [tracks_to_predict EXCEPT ![ret.value.case_id] = lst]
    /\ UNCHANGED <<pc, inputs, split, num_cases, interesting_agents, frames>>

(***************************************************************************)
(* Input domains.                                                          *)
(***************************************************************************)
CaseIds == {0, 1}

CallIds == {0, 1}

TrackIds == {1, 2}

Timestamps == {TsFirst, TsCurrent, TsLast}

RawTypes == {"car", "pedestrian/bicycle"}

\* Rows of a train or val file: two tracks in case 0 with every timestamp
\* and type, and in case 1 one car track at the ends of the horizon.
TrainRows ==
    [case_id : {0}, track_id : TrackIds, timestamp_ms : Timestamps,
     agent_type : RawTypes, x : {0}]
    \cup
    [case_id : {1}, track_id : {1}, timestamp_ms : {TsFirst, TsLast},
     agent_type : {"car"}, x : {0}]

Numbered(rows) == [i \in 1..Len(rows) |-> [rows[i] EXCEPT !.x = i]]

File(cols, rs) == [cols |-> cols, rows |-> Numbered(rs), missing |-> FALSE]

TrainFile(rs) == File(BaseCols, rs)

TestRows ==
    [case_id : {0}, track_id : TrackIds, timestamp_ms : {TsCurrent},
     agent_type : {"car"}, x : {0}, tracks_to_predict : {0, 1},
     interesting_agent : {0, 1}]

TestFile(rs) == File(BaseCols \cup FlagCols, rs)

Disk(suffix, file) == [name |-> <<Location, suffix>>, file |-> file]

Chars(s) ==
    CASE s = "x" -> <<"x">>
      [] s = "tra" -> <<"t", "r", "a">>
      [] s = "in" -> <<"i", "n">>
      [] OTHER -> Word(s)

Pieces == {"x", "tra", "in", "val", "test", "train"}

RECURSIVE Concat(_)
Concat(ps) == IF ps = <<>> THEN <<>> ELSE Chars(Head(ps)) \o Concat(Tail(ps))

Parents == {Word("train"), <<"x">>}

SplitArgs == {None, "train", "val", "test", "trainval", ""}

\* The track file of the constructions over roots and split arguments.
OneRow(flags, type) ==
    IF flags
    THEN TestFile(<<[case_id |-> 0, track_id |-> 1, timestamp_ms |-> TsCurrent,
                     agent_type |-> type, x |-> 0, tracks_to_predict |-> 1,
                     interesting_agent |-> 1]>>)
    ELSE TrainFile(<<[case_id |-> 0, track_id |-> 1, timestamp_ms |-> TsCurrent,
                      agent_type |-> type, x |-> 0]>>)

SmallDisks ==
    {Disk("train", OneRow(FALSE, "car")), Disk("obs", OneRow(TRUE, "car")),
     Disk("obs", OneRow(FALSE, "car")), Disk("val", OneRow(TRUE, "car")),
     Disk("train", OneRow(FALSE, "truck"))}

FrameRows ==
    [track_id : TrackIds, timestamp_ms : Timestamps, agent_type : AgentType,
     x : {0}]

(***************************************************************************)
(* Specifications.                                                         *)
(***************************************************************************)
Init ==
    /\ pc = "new"
    /\ root_in = Unset
    /\ split_in = Unset
    /\ disk = Unset
    /\ frame_in = <<>>
    /\ split = Unset
    /\ num_cases = Unset
    /\ tracks_to_predict = Unset
    /\ interesting_agents = Unset
    /\ frames = Unset
    /\ ret = NoResult

\* The scenarios of Spec: a train root without a split argument and a val
\* split given, each over every train file, and a test split given over
\* every test file.
ConstructData ==
    /\ pc = "new"
    /\ \E k \in 0..MaxRows :
        \/ \E rs \in [1..k -> TrainRows] :
            \/ Construct(<<Word("train")>>, None, Disk("train", TrainFile(rs)))
            \/ Construct(<<Word("train")>>, "val", Disk("val", TrainFile(rs)))
        \/ \E rs \in [1..k -> TestRows] :
            Construct(<<<<"x">>>>, "test", Disk("obs", TestFile(rs)))

CallGetCase == \E c \in CallIds : GetCase(c)

CallGetItem == \E c \in CallIds : GetItem(c)

CallRender == \E c \in CallIds : Render(c)

Next == ConstructData \/ CallGetCase \/ CallGetItem \/ CallRender \/ Length

Spec == Init /\ [][Next]_vars

\* The scenario's calls, and a caller that changes the Case it was given.
CallerUse == \E t \in TrackIds : CallerAppend(t)

NextCaller == Next \/ CallerUse

SpecCaller == Init /\ [][NextCaller]_vars

\* Construction over root paths and split arguments.
ConstructSplit ==
    /\ pc = "new"
    /\ \E k \in 0..MaxPieces :
        \E ps \in [1..k -> Pieces], parent \in Parents, a \in SplitArgs,
           d \in SmallDisks :
            Construct(<<parent, Concat(ps)>>, a, d)

SpecSplit == Init /\ [][ConstructSplit]_vars

\* get_tracks_from_frame over the frames of a caller.
InitFrame ==
    /\ pc = "frame"
    /\ root_in = Unset
    /\ split_in = Unset
    /\ disk = Unset
    /\ \E k \in 0..MaxFrameRows :
        \E rs \in [1..k -> FrameRows] : frame_in = Numbered(rs)
    /\ split = Unset
    /\ num_cases = Unset
    /\ tracks_to_predict = Unset
    /\ interesting_agents = Unset
    /\ frames = Unset
    /\ ret = NoResult

SpecFrame == InitFrame /\ [][GetTracksFromFrame]_vars

(***************************************************************************)
(* Properties.                                                             *)
(***************************************************************************)
FileRows == disk.file.rows

RowsOfCase(c) == {i \in 1..Len(FileRows) : FileRows[i].case_id = c}

Xs(rows) == {rows[i].x : i \in 1..Len(rows)}

AllTracks(case) ==
    Range(case.history_tracks) \cup Range(case.current_tracks)
        \cup Range(case.futural_tracks)

RECURSIVE SumLen(_)
SumLen(tracks) ==
    IF tracks = <<>> THEN 0
    ELSE Len(Head(tracks).motion_states) + SumLen(Tail(tracks))

StateXs(tracks) ==
    UNION {Xs(tracks[i].motion_states) : i \in 1..Len(tracks)}

\* C1: whenever get_case or scenario[case_id] is called with
\* case_id >= num_cases, no Case comes back (the call fails).
C1_NoCaseBeyondNumCases ==
    (pc = "constructed" /\ ret.kind = "Case")
        => ret.value.case_id < num_cases

\* C2: for every case id of the file, every row of the case is exactly once
\* in history (timestamp <= 1000) or in future (timestamp > 1000), current
\* holds exactly the rows at timestamp 1000, each also in history and none
\* in future; a returned Case carries these rows, one MotionState per row.
C2_Windows ==
    pc = "constructed" =>
        /\ \A c \in CaseIdsOf(FileRows) :
            LET h == get_history(c)
                u == get_current(c)
                f == get_futural(c)
                mine == RowsOfCase(c)
            IN  /\ Xs(h) = {i \in mine : FileRows[i].timestamp_ms <= TsCurrent}
                /\ Xs(f) = {i \in mine : FileRows[i].timestamp_ms > TsCurrent}
                /\ Xs(u) = {i \in mine : FileRows[i].timestamp_ms = TsCurrent}
                /\ Len(h) = Cardinality(Xs(h))
                /\ Len(f) = Cardinality(Xs(f))
                /\ Len(u) = Cardinality(Xs(u))
                /\ Xs(h) \cap Xs(f) = {}
                /\ Xs(h) \cup Xs(f) = mine
                /\ Xs(u) \subseteq Xs(h)
                /\ Xs(u) \cap Xs(f) = {}
                /\ \A j \in 1..Len(h) : h[j].timestamp_ms = FileRows[h[j].x].timestamp_ms
                /\ \A j \in 1..Len(f) : f[j].timestamp_ms = FileRows[f[j].x].timestamp_ms
        /\ ret.kind = "Case" =>
            LET c == ret.value.case_id
            IN  /\ StateXs(ret.value.history_tracks) = Xs(get_history(c))
                /\ StateXs(ret.value.current_tracks) = Xs(get_current(c))
                /\ StateXs(ret.value.futural_tracks) = Xs(get_futural(c))
                /\ SumLen(ret.value.history_tracks) = Len(get_history(c))
                /\ SumLen(ret.value.current_tracks) = Len(get_current(c))
                /\ SumLen(ret.value.futural_tracks) = Len(get_futural(c))

C2_Witness ==
    /\ pc = "constructed"
    /\ ret.kind = "Case"
    /\ ret.value.current_tracks # <<>>
    /\ ret.value.futural_tracks # <<>>
    /\ SumLen(ret.value.history_tracks) > SumLen(ret.value.current_tracks)

\* C3: in a train or val scenario, track T of case C is in
\* tracks_to_predict[C] exactly when the least timestamp of its rows is 100,
\* the greatest is 4000 and its agent type (that of its first row in the
\* file) is CAR.
C3_TrainValToPredict ==
    (pc = "constructed" /\ split \in {"train", "val"}) =>
        \A c \in CaseIds, t \in TrackIds :
            LET mine == {i \in RowsOfCase(c) : FileRows[i].track_id = t}
                listed == /\ c \in DOMAIN tracks_to_predict
                          /\ \E j \in 1..Len(tracks_to_predict[c]) :
                                tracks_to_predict[c][j] = t
            IN  listed <=>
                    /\ mine # {}
                    /\ \E i \in mine : FileRows[i].timestamp_ms = TsFirst
                    /\ \E i \in mine : FileRows[i].timestamp_ms = TsLast
                    /\ \A i \in mine : /\ FileRows[i].timestamp_ms >= TsFirst
                                       /\ FileRows[i].timestamp_ms <= TsLast
                    /\ \E i \in mine : /\ \A k \in mine : i <= k
                                       /\ FileRows[i].agent_type = "car"

C3_Witness ==
    /\ pc = "constructed"
    /\ split = "val"
    /\ \E c \in CaseIds : c \in DOMAIN tracks_to_predict
    /\ \E i \in 1..Len(FileRows) : FileRows[i].agent_type # "car"

\* C4: constructing a test scenario over a file with a row of track T in
\* case C whose tracks_to_predict (interesting_agent) flag is 1 gives a
\* scenario whose tracks_to_predict[C] (interesting_agents[C]) lists T.
C4_TestIndices ==
    (pc # "new" /\ split = "test" /\ disk.name = track_file(Location, "test")
        /\ FlagCols \subseteq disk.file.cols) =>
        \A i \in 1..Len(FileRows) :
            /\ FileRows[i].tracks_to_predict = 1 =>
                /\ pc = "constructed"
                /\ FileRows[i].case_id \in DOMAIN tracks_to_predict
                /\ FileRows[i].track_id
                       \in Range(tracks_to_predict[FileRows[i].case_id])
            /\ FileRows[i].interesting_agent = 1 =>
                /\ pc = "constructed"
                /\ FileRows[i].case_id \in DOMAIN interesting_agents
                /\ FileRows[i].track_id
                       \in Range(interesting_agents[FileRows[i].case_id])

\* C5: without a split argument the split is the first of train, val, test
\* that occurs in the last part of the root path, and construction fails
\* with a ValueError when none occurs; a split argument that is none of the
\* three fails the assertion; a constructed scenario has one of the three.
Occurs(w, seg) ==
    \E off \in 0..Len(seg) :
        /\ off + Len(w) <= Len(seg)
        /\ \A k \in 1..Len(w) : seg[off + k] = w[k]

C5_SplitResolution ==
    pc # "new" =>
        LET seg == root_in[Len(root_in)]
            tr  == Occurs(<<"t", "r", "a", "i", "n">>, seg)
            va  == Occurs(<<"v", "a", "l">>, seg)
            te  == Occurs(<<"t", "e", "s", "t">>, seg)
            configError == pc = "failed" /\ ret.kind = "error"
                           /\ ret.error \in {"ValueError", "AssertionError"}
        IN  /\ split_in = None =>
                /\ tr => split = "train"
                /\ (~tr /\ va) => split = "val"
                /\ (~tr /\ ~va /\ te) => split = "test"
                /\ (tr \/ va \/ te) => ~configError
                /\ ~(tr \/ va \/ te) => (configError /\ ret.error = "ValueError")
            /\ (split_in # None /\ split_in \notin {"train", "val", "test"}) =>
                (configError /\ ret.error = "AssertionError")
            /\ (split_in \in {"train", "val", "test"}) =>
                (split = split_in /\ ~configError)
            /\ pc = "constructed" => split \in {"train", "val", "test"}

C5_Witness ==
    /\ pc = "constructed"
    /\ split_in = None
    /\ split = "train"
    /\ LastPart(root_in) = <<"v", "a", "l", "t", "r", "a", "i", "n">>

\* C6: get_tracks_from_frame gives one Track per distinct track_id of the
\* frame; the Track of k has agent_id k and one MotionState per row of k,
\* in the order of the rows in the frame; the empty frame gives no Track.
C6_TracksFromFrame ==
    (pc = "frame_done" /\ ret.kind = "tracks") =>
        LET tracks == ret.value
            ids == {frame_in[i].track_id : i \in 1..Len(frame_in)}
        IN  /\ Len(tracks) = Cardinality(ids)
            /\ {tracks[i].agent_id : i \in 1..Len(tracks)} = ids
            /\ \A i \in 1..Len(tracks) :
                LET k == tracks[i].agent_id
                    Mine(r) == r.track_id = k
                    rows == SelectSeq(frame_in, Mine)
                    ms == tracks[i].motion_states
                IN  /\ Len(ms) = Len(rows)
                    /\ \A j \in 1..Len(ms) :
                        /\ ms[j].agent_id = k
                        /\ ms[j].timestamp_ms = rows[j].timestamp_ms
                        /\ ms[j].x = rows[j].x
            /\ frame_in = <<>> => tracks = <<>>

C6_Witness ==
    /\ pc = "frame_done"
    /\ ret.kind = "tracks"
    /\ Len(frame_in) = 3
    /\ frame_in[1].track_id = frame_in[3].track_id
    /\ frame_in[2].track_id # frame_in[1].track_id
    /\ frame_in[1].timestamp_ms > frame_in[3].timestamp_ms

\* C7: once the scenario is constructed, no call on it and no use of a
\* returned Case changes num_cases, the two indices or the layers.
C7_ReadOnly == [][pc = "constructed" => UNCHANGED scenario]_vars

\* C8: in every Track of a returned Case, all MotionStates carry the
\* Track's agent id and their timestamps are strictly increasing.
C8_TracksOrdered ==
    (pc = "constructed" /\ ret.kind = "Case") =>
        \A tr \in AllTracks(ret.value) :
            /\ \A j \in 1..Len(tr.motion_states) :
                tr.motion_states[j].agent_id = tr.agent_id
            /\ \A j \in 1..(Len(tr.motion_states) - 1) :
                tr.motion_states[j].timestamp_ms
                    < tr.motion_states[j + 1].timestamp_ms

\* C9: both indices have an entry for every case id of the file, and
\* get_case returns a Case for every such case id.
C9_IndexEntries ==
    pc = "constructed" =>
        \A c \in CaseIdsOf(FileRows) :
            /\ c \in DOMAIN tracks_to_predict
            /\ c \in DOMAIN interesting_agents
            /\ get_case(c).kind = "Case"

\* C10: the type of the Track of track_id k is the agent type of the first
\* row of k in the frame.
C10_FirstSeenType ==
    (pc = "frame_done" /\ ret.kind = "tracks") =>
        \A i \in 1..Len(ret.value) :
            LET k == ret.value[i].agent_id
                first == CHOOSE a \in 1..Len(frame_in) :
                            /\ frame_in[a].track_id = k
                            /\ \A b \in 1..(a - 1) : frame_in[b].track_id # k
            IN  ret.value[i].type = deserialize(frame_in[first].agent_type)

====
